---- MODULE Spec2Model ----
(***************************************************************************)
(* The 8255 interpreter: the Memory Stack (src/8255/stack.py) and the      *)
(* Execution Engine (src/8255/__main__.py), modelled as state machines.    *)
(*                                                                         *)
(* Values are records [t, i, s]: t is the Python type of the value ("int", *)
(* "str" or "float"), i the integer (0 for the others) and s the text as a *)
(* sequence of code points (<<>> for the others).                          *)
(* Arena cells are integers: None, ALLOCATED or a byte 0..255.             *)
(***************************************************************************)
EXTENDS Integers, Sequences, FiniteSets, TLC

VARIABLES store, vars, last,
          source, program,
          lines, labels, current_line, comparison_result, compared, status, step

vars_engine ==
    <<source, program,
      lines, labels, current_line, comparison_result, compared, status, step>>

allvars ==
    <<store, vars, last,
      source, program,
      lines, labels, current_line, comparison_result, compared, status, step>>

(* ------------------------------ bounds -------------------------------- *)

\* Number of cells of the arena (program.byte_size) in the model.
StackSize == 3

\* Number of instructions of a program besides its label line.
BodyLen == 3

\* Number of numbered lines of a source handed to construct_program.
SourceLen == 3

(* ------------------------------ values -------------------------------- *)

\* A free arena cell (Python None).
None == -1

\* An allocated, never written arena cell (the bytes object b"\x00").
ALLOCATED == -2

IntV(n) == [t |-> "int", i |-> n, s |-> <<>>]

StrV(str) == [t |-> "str", i |-> 0, s |-> str]

\* The result of operator.truediv: a float, which is neither int nor str.
FloatV == [t |-> "float", i |-> 0, s |-> <<>>]

NoValue == [t |-> "none", i |-> 0, s |-> <<>>]

RECURSIVE Pow(_, _)
Pow(b, e) == IF e = 0 THEN 1 ELSE b * Pow(b, e - 1)

Zeros(n) == [k \in 1..n |-> 0]

\* Python slice seq[a:b] with 0 <= a, on 0-based indices.
Slice(seq, a, b) ==
    LET hi == IF b > Len(seq) THEN Len(seq) ELSE b
    IN  IF a >= hi THEN <<>> ELSE [k \in 1..(hi - a) |-> seq[a + k]]

\* Python slice assignment seq[a:b] = new.
SliceAssign(seq, a, b, new) ==
    LET lo == IF a > Len(seq) THEN Len(seq) ELSE a
        hi == IF b < lo THEN lo ELSE b
    IN  Slice(seq, 0, lo) \o new \o Slice(seq, hi, Len(seq))

(* -------------------------- Stack (stack.py) --------------------------- *)

ReservedNames == {"slx", "sly", "slz"}

NoAllocation == [start |-> 0, end |-> 0, size |-> 0]

Allocation(start, end, size) == [start |-> start, end |-> end, size |-> size]

Register(allocation, datatype) ==
    [kind |-> "Register", allocation |-> allocation, datatype |-> datatype,
     value |-> NoValue]

ReservedRegister(value) ==
    [kind |-> "ReservedRegister", allocation |-> NoAllocation,
     datatype |-> "NOTSET", value |-> value]

\* Variant of the classification in which ReservedName is not derived from
\* StackError.
StackErrors_without_ReservedName ==
    {"NotAllocated", "NullDataInOperation", "MemoryOverflow", "StackError"}

\* Exceptions derived from StackError: the engine re-raises them.
StackErrors ==
    {"NotAllocated", "NullDataInOperation", "ReservedName", "MemoryOverflow",
     "StackError"}

\* v >> (8 * n): floor division by 256, n times.
RECURSIVE Shr8(_, _)
Shr8(v, n) == IF n = 0 THEN v ELSE Shr8(v \div 256, n - 1)

\* int.to_bytes(size, signed = True): big-endian two's complement.
ToBytes(v, size) == [k \in 1..size |-> Shr8(v, size - k) % 256]

\* Whether to_bytes(size, signed = True) accepts v: -2^(8 size - 1) <= v < 2^(8 size - 1).
FitsSigned(v, size) ==
    IF size = 0 THEN v = 0
    ELSE Shr8(v, size - 1) >= -128 /\ Shr8(v, size - 1) <= 127

\* int.from_bytes(bytes, signed = True): big-endian two's complement.
RECURSIVE FromBytes(_)
FromBytes(bytes) ==
    IF bytes = <<>> THEN 0
    ELSE IF Len(bytes) = 1
    THEN IF bytes[1] >= 128 THEN bytes[1] - 256 ELSE bytes[1]
    ELSE 256 * FromBytes(SubSeq(bytes, 1, Len(bytes) - 1)) + bytes[Len(bytes)]

\* Variant of serialize: to_bytes without signed = True, which rejects every
\* negative integer and accepts 0 .. 256^size - 1.
serialize_unsigned(value, size) ==
    IF value.t = "int"
    THEN IF value.i >= 0 /\ Shr8(value.i, size) = 0
         THEN [err |-> "none", bytes |-> ToBytes(value.i, size)]
         ELSE [err |-> "OverflowError", bytes |-> <<>>]
    ELSE IF value.t = "str"
    THEN [err |-> "none", bytes |-> value.s \o Zeros(size - Len(value.s))]
    ELSE [err |-> "AttributeError", bytes |-> <<>>]

\* Variant of serialize that does not pad a text with zeros.
serialize_unpadded(value, size) ==
    IF value.t = "int"
    THEN IF FitsSigned(value.i, size)
         THEN [err |-> "none", bytes |-> ToBytes(value.i, size)]
         ELSE [err |-> "OverflowError", bytes |-> <<>>]
    ELSE IF value.t = "str"
    THEN IF \E k \in 1..Len(value.s) : value.s[k] >= 128
         THEN [err |-> "UnicodeEncodeError", bytes |-> <<>>]
         ELSE [err |-> "none", bytes |-> value.s]
    ELSE [err |-> "AttributeError", bytes |-> <<>>]

\* Stack.serialize
serialize(value, size) ==
    IF value.t = "int"
    THEN IF FitsSigned(value.i, size)
         THEN [err |-> "none", bytes |-> ToBytes(value.i, size)]
         ELSE [err |-> "OverflowError", bytes |-> <<>>]
    ELSE IF value.t = "str"
    THEN IF \E k \in 1..Len(value.s) : value.s[k] >= 128
         THEN [err |-> "UnicodeEncodeError", bytes |-> <<>>]
         ELSE [err |-> "none",
               bytes |-> value.s \o Zeros(size - Len(value.s))]
    ELSE [err |-> "AttributeError", bytes |-> <<>>]

\* Variant of the scan that does not reset count on a cell that is not free.
RECURSIVE AllocScanNoReset(_, _, _, _, _)
AllocScanNoReset(st, size, i, count, start_index) ==
    IF i >= Len(st)
    THEN [err |-> "MemoryOverflow", allocation |-> NoAllocation, store |-> st]
    ELSE IF st[i + 1] = None
    THEN LET s0 == IF count = 0 THEN i ELSE start_index
         IN  IF count + 1 = size
             THEN [err |-> "none",
                   allocation |-> Allocation(s0, s0 + size - 1, size),
                   store |-> SliceAssign(st, s0, s0 + size,
                                         [k \in 1..size |-> ALLOCATED])]
             ELSE AllocScanNoReset(st, size, i + 1, count + 1, s0)
    ELSE AllocScanNoReset(st, size, i + 1, count, start_index)

\* The scan of Stack.allocate from index i (0-based) on.
RECURSIVE AllocScan(_, _, _, _, _)
AllocScan(st, size, i, count, start_index) ==
    IF i >= Len(st)
    THEN [err |-> "MemoryOverflow", allocation |-> NoAllocation, store |-> st]
    ELSE IF st[i + 1] = None
    THEN LET s0 == IF count = 0 THEN i ELSE start_index
         IN  IF count + 1 = size
             THEN [err |-> "none",
                   allocation |-> Allocation(s0, s0 + size - 1, size),
                   store |-> SliceAssign(st, s0, s0 + size,
                                         [k \in 1..size |-> ALLOCATED])]
             ELSE AllocScan(st, size, i + 1, count + 1, s0)
    ELSE AllocScan(st, size, i + 1, 0, start_index)

\* Variant of allocate that returns the range without marking its cells.
allocate_unmarked(st, size) ==
    [AllocScan(st, size, 0, 0, -1) EXCEPT !.store = st]

\* Stack.allocate
allocate(st, size) == AllocScan(st, size, 0, 0, -1)

\* Stack.write
write(st, allocation, value) ==
    LET ser == serialize(value, allocation.size)
    IN  IF ser.err # "none" THEN [err |-> ser.err, store |-> st]
        ELSE IF Len(ser.bytes) > allocation.size
        THEN [err |-> "MemoryOverflow", store |-> st]
        ELSE IF allocation.end - 1 > Len(st)
        THEN [err |-> "MemoryOverflow", store |-> st]
        ELSE [err |-> "none",
              store |-> SliceAssign(st, allocation.start, allocation.end + 1,
                                    ser.bytes)]

\* Stack.get
get(st, allocation, cast) ==
    LET value == Slice(st, allocation.start, allocation.end + 1)
        n == Len(value)
        kept == SelectSeq(value, LAMBDA v : v # 0)
    IN  IF \E k \in 1..n : value[k] = None
        THEN [err |-> "NullDataInOperation", value |-> NoValue]
        ELSE IF cast = "INTEGER"
        THEN IF \E k \in 1..n : value[k] = ALLOCATED
             THEN [err |-> "TypeError", value |-> NoValue]
             ELSE [err |-> "none", value |-> IntV(FromBytes(value))]
        ELSE IF cast = "STRING"
        THEN IF \E k \in 1..Len(kept) : kept[k] = ALLOCATED
             THEN [err |-> "TypeError", value |-> NoValue]
             ELSE IF \E k \in 1..Len(kept) : kept[k] >= 128
             THEN [err |-> "UnicodeDecodeError", value |-> NoValue]
             ELSE [err |-> "none", value |-> StrV(kept)]
        ELSE [err |-> "StackError", value |-> NoValue]

\* Variant of drop that frees every cell of the range but the last.
drop_keeps_last_cell(st, allocation) ==
    SliceAssign(st, allocation.start, allocation.end,
                [k \in 1..(allocation.size - 1) |-> None])

\* Stack.drop
drop(st, allocation) ==
    SliceAssign(st, allocation.start, allocation.end + 1,
                [k \in 1..allocation.size |-> None])

\* Variant of allocate_variable that does not test whether name is bound.
allocate_variable_rebinds(st, vs, name, size) ==
    LET a == allocate(st, size)
    IN  IF a.err # "none"
        THEN [err |-> a.err, store |-> st, vars |-> vs]
        ELSE [err |-> "none", store |-> a.store,
              vars |-> [n \in DOMAIN vs \cup {name} |->
                          IF n = name
                          THEN Register(a.allocation, "NOTSET")
                          ELSE vs[n]]]

\* Stack.allocate_variable
allocate_variable(st, vs, name, size) ==
    IF name \in DOMAIN vs
    THEN [err |-> "ValueError", store |-> st, vars |-> vs]
    ELSE LET a == allocate(st, size)
         IN  IF a.err # "none"
             THEN [err |-> a.err, store |-> st, vars |-> vs]
             ELSE [err |-> "none", store |-> a.store,
                   vars |-> [n \in DOMAIN vs \cup {name} |->
                               IF n = name
                               THEN Register(a.allocation, "NOTSET")
                               ELSE vs[n]]]

\* Variant of write_variable that writes a reserved register whatever the
\* value of reserved.
write_variable_unguarded(st, vs, name, value, reserved) ==
    IF name \notin DOMAIN vs
    THEN [err |-> "NotAllocated", store |-> st, vars |-> vs]
    ELSE IF vs[name].kind = "ReservedRegister"
    THEN [err |-> "none", store |-> st,
          vars |-> [vs EXCEPT ![name].value = value]]
    ELSE LET vs1 == [vs EXCEPT ![name].datatype =
                        IF value.t = "int" THEN "INTEGER" ELSE "STRING"]
             w == write(st, vs[name].allocation, value)
         IN  [err |-> w.err, store |-> w.store, vars |-> vs1]

\* Stack.write_variable
write_variable(st, vs, name, value, reserved) ==
    IF name \notin DOMAIN vs
    THEN [err |-> "NotAllocated", store |-> st, vars |-> vs]
    ELSE IF vs[name].kind = "ReservedRegister"
    THEN IF ~reserved
         THEN [err |-> "ReservedName", store |-> st, vars |-> vs]
         ELSE [err |-> "none", store |-> st,
               vars |-> [vs EXCEPT ![name].value = value]]
    ELSE LET vs1 == [vs EXCEPT ![name].datatype =
                        IF value.t = "int" THEN "INTEGER" ELSE "STRING"]
             w == write(st, vs[name].allocation, value)
         IN  [err |-> w.err, store |-> w.store, vars |-> vs1]

\* Stack.get_variable
get_variable(st, vs, name) ==
    IF name \notin DOMAIN vs
    THEN [err |-> "NotAllocated", value |-> NoValue]
    ELSE IF vs[name].kind = "ReservedRegister"
    THEN [err |-> "none", value |-> vs[name].value]
    ELSE IF vs[name].datatype = "NOTSET"
    THEN [err |-> "NullDataInOperation", value |-> NoValue]
    ELSE get(st, vs[name].allocation, vs[name].datatype)

\* Variant of drop_variable that frees the range and keeps the binding.
drop_variable_keeps_binding(st, vs, name) ==
    IF name \notin DOMAIN vs
    THEN [err |-> "NotAllocated", store |-> st, vars |-> vs]
    ELSE IF vs[name].kind = "ReservedRegister"
    THEN [err |-> "ReservedName", store |-> st, vars |-> vs]
    ELSE [err |-> "none", store |-> drop(st, vs[name].allocation), vars |-> vs]

\* Stack.drop_variable
drop_variable(st, vs, name) ==
    IF name \notin DOMAIN vs
    THEN [err |-> "NotAllocated", store |-> st, vars |-> vs]
    ELSE IF vs[name].kind = "ReservedRegister"
    THEN [err |-> "ReservedName", store |-> st, vars |-> vs]
    ELSE [err |-> "none", store |-> drop(st, vs[name].allocation),
          vars |-> [n \in DOMAIN vs \ {name} |-> vs[n]]]

\* Stack.__init__
StackInitStore(size) == [k \in 1..size |-> None]

StackInitVars == [n \in ReservedNames |-> ReservedRegister(IntV(0))]

(* ------------------- the Stack driven through its API ------------------ *)

\* Variable names the calls use: two program names and a reserved one.
Names == {"x", "y", "slx"}

\* Sizes requested from allocate: 0 up to one more than the arena holds.
Sizes == 0..(StackSize + 1)

\* Integers written: -5, the limits -128 and 127 of the signed range of one
\* byte, and the integers next to them.
IntValues == {-129, -128, -5, 127, 128}

\* "hi", "a\x00b" and a text one longer than the arena.
TextValues == {<<104, 105>>, <<97, 0, 98>>, [k \in 1..(StackSize + 1) |-> 97]}

WriteValues ==
    {IntV(n) : n \in IntValues} \cup {StrV(t) : t \in TextValues} \cup {FloatV}

\* The call made last: the method, the name it was given, the exception it
\* raised ("none" when it returned) and the value it returned.
Call(op, name, err, ret) == [op |-> op, name |-> name, err |-> err, ret |-> ret]

NoCall == Call("none", "", "none", NoValue)

\* The fields name and byte_size of a Program, and the exception
\* construct_program raised instead of returning it ("none" when it returned);
\* the fields lines and labels are the variables of these names.
Header(name, byte_size, err) ==
    [name |-> name, byte_size |-> byte_size, err |-> err]

NoProgram == Header("None", 0, "none")

\* No program is loaded: the Stack is driven through its methods alone.
EngineIdle ==
    /\ source = <<>>
    /\ program = NoProgram
    /\ lines = <<>>
    /\ labels = <<>>
    /\ current_line = 0
    /\ comparison_result = "None"
    /\ compared = [set |-> FALSE, a |-> NoValue, b |-> NoValue]
    /\ status = "idle"
    /\ step = [line |-> 0, op |-> "none", outcome |-> "none", err |-> "none",
               out |-> NoValue]

Init ==
    /\ store = StackInitStore(StackSize)
    /\ vars = StackInitVars
    /\ last = NoCall
    /\ EngineIdle

AllocateVariable ==
    \E name \in Names, size \in Sizes :
        LET r == allocate_variable(store, vars, name, size)
        IN  /\ store' = r.store
            /\ vars' = r.vars
            /\ last' = Call("allocate_variable", name, r.err, NoValue)
            /\ UNCHANGED vars_engine

WriteVariable ==
    \E name \in Names, value \in WriteValues :
        LET r == write_variable(store, vars, name, value, FALSE)
        IN  /\ store' = r.store
            /\ vars' = r.vars
            /\ last' = Call("write_variable", name, r.err, NoValue)
            /\ UNCHANGED vars_engine

GetVariable ==
    \E name \in Names :
        LET r == get_variable(store, vars, name)
        IN  /\ last' = Call("get_variable", name, r.err, r.value)
            /\ UNCHANGED <<store, vars>>
            /\ UNCHANGED vars_engine

DropVariable ==
    \E name \in Names :
        LET r == drop_variable(store, vars, name)
        IN  /\ store' = r.store
            /\ vars' = r.vars
            /\ last' = Call("drop_variable", name, r.err, NoValue)
            /\ UNCHANGED vars_engine

Next ==
    \/ AllocateVariable
    \/ WriteVariable
    \/ GetVariable
    \/ DropVariable

Spec == Init /\ [][Next]_allvars

(* -------------------- Execution Engine (__main__.py) ------------------- *)

\* Operand tokens, by the shape the engine's parsers tell apart:
\*   ref    &name (name "" for a bare &)     num   a numeric literal
\*   lit    a quoted text without $ and \    word  any other token
\*   alloc  :[n]
Ref(name) == [k |-> "ref", name |-> name, n |-> 0, s |-> <<>>]

Num(n) == [k |-> "num", name |-> "", n |-> n, s |-> <<>>]

Lit(text) == [k |-> "lit", name |-> "", n |-> 0, s |-> text]

Word(name) == [k |-> "word", name |-> name, n |-> 0, s |-> <<>>]

AllocTok(n) == [k |-> "alloc", name |-> "", n |-> n, s |-> <<>>]

\* A parsed line: the opcode and the operand tokens (the ">" of inp and of the
\* arithmetic opcodes left out).
Instr(op, args) == [op |-> op, args |-> args]

JumpOps == {"jeq", "jnq", "jgt", "jlt", "jge", "jle"}

ArithOps == {"add", "sub", "mul", "div", "pow"}

(* ------------------ Program construction (construct.py) ---------------- *)

\* A line of the source after process_lines, by the shape the match statement
\* of construct_program tells apart:
\*   START, PROGRAM name, SIZE nK system (n = 0 for a size token the regex
\*   rejects), "." , num (a numeric first token n, then the code line),
\*   word (any other non-empty line), empty (a line that was all comment).
SourceLine(k, n, name, code) == [k |-> k, n |-> n, name |-> name, code |-> code]

NoCode == Instr("", <<>>)

Start == SourceLine("START", 0, "", NoCode)

ProgramLine(name) == SourceLine("PROGRAM", 0, name, NoCode)

SizeLine(n, system) == SourceLine("SIZE", n, system, NoCode)

Terminator == SourceLine(".", 0, "", NoCode)

Numbered(n, code) == SourceLine("num", n, "", code)

WordLine(word) == SourceLine("word", 0, word, NoCode)

EmptyLine == SourceLine("empty", 0, "", NoCode)

SIZE_SYSTEM_MAPPING ==
    [BINARY |-> 1024, BIN |-> 1024, DECIMAL |-> 1000, DEC |-> 1000]

\* The sizes the regex (1|2|4|8|16|32|64|128)K accepts.
SizeUnits == {1, 2, 4, 8, 16, 32, 64, 128}

\* The dict program, in_code_block and last_line before the loop.
ConstructStart ==
    [err |-> "none", name |-> "None", byte_size |-> 8192, lines |-> <<>>,
     labels |-> <<>>, in_code_block |-> FALSE, last_line |-> 0]

\* Variant of the registration that records the number of lines after the
\* line was pushed.
register_label_after_push(table, code_line, index) ==
    IF code_line.op = "lbl" /\ Len(code_line.args) = 1
    THEN [n \in DOMAIN table \cup {code_line.args[1].name} |->
             IF n = code_line.args[1].name THEN index + 1 ELSE table[n]]
    ELSE table

\* case ["lbl", label_name]: program["labels"][label_name] = len(program["lines"])
register_label(table, code_line, index) ==
    IF code_line.op = "lbl" /\ Len(code_line.args) = 1
    THEN [n \in DOMAIN table \cup {code_line.args[1].name} |->
             IF n = code_line.args[1].name THEN index ELSE table[n]]
    ELSE table

\* Variant of the iteration that takes START, PROGRAM and SIZE inside the
\* code block as it does before it.
ConstructLine_directives_anywhere(c, processed_lines, index) ==
    LET line == processed_lines[index + 1]
        \* processed_lines[index - 1]: for index 0 the last line
        previous == processed_lines[IF index = 0 THEN Len(processed_lines)
                                    ELSE index]
        SyntaxError == [c EXCEPT !.err = "SyntaxError"]
    IN  IF line.k = "START" THEN c
        ELSE IF line.k = "PROGRAM"
        THEN [c EXCEPT !.name = line.name]
        ELSE IF line.k = "SIZE"
        THEN IF line.n \notin SizeUnits THEN SyntaxError
             ELSE IF line.name \notin DOMAIN SIZE_SYSTEM_MAPPING THEN SyntaxError
             ELSE [c EXCEPT !.byte_size = line.n * SIZE_SYSTEM_MAPPING[line.name]]
        ELSE IF line.k = "."
        THEN IF ~c.in_code_block THEN SyntaxError
             ELSE IF index # Len(processed_lines) - 1 THEN SyntaxError
             ELSE c
        ELSE IF line.k = "empty" THEN [c EXCEPT !.err = "Exception"]
        ELSE IF line.k # "num" THEN SyntaxError
        ELSE IF previous # Start /\ ~c.in_code_block THEN SyntaxError
        ELSE IF line.n <= c.last_line \/ line.n % 10 # 0 THEN SyntaxError
        ELSE [c EXCEPT !.last_line = line.n,
                       !.labels = register_label(c.labels, line.code,
                                                 Len(c.lines)),
                       !.in_code_block = TRUE,
                       !.lines = Append(c.lines, line.code)]

\* One iteration of the loop of construct_program, on processed_lines[index].
ConstructLine(c, processed_lines, index) ==
    LET line == processed_lines[index + 1]
        \* processed_lines[index - 1]: for index 0 the last line
        previous == processed_lines[IF index = 0 THEN Len(processed_lines)
                                    ELSE index]
        SyntaxError == [c EXCEPT !.err = "SyntaxError"]
    IN  IF line.k = "START" /\ ~c.in_code_block THEN c
        ELSE IF line.k = "PROGRAM" /\ ~c.in_code_block
        THEN [c EXCEPT !.name = line.name]
        ELSE IF line.k = "SIZE" /\ ~c.in_code_block
        THEN IF line.n \notin SizeUnits THEN SyntaxError
             ELSE IF line.name \notin DOMAIN SIZE_SYSTEM_MAPPING THEN SyntaxError
             ELSE [c EXCEPT !.byte_size = line.n * SIZE_SYSTEM_MAPPING[line.name]]
        ELSE IF line.k = "."
        THEN IF ~c.in_code_block THEN SyntaxError
             ELSE IF index # Len(processed_lines) - 1 THEN SyntaxError
             ELSE c
        ELSE IF line.k = "empty" THEN [c EXCEPT !.err = "Exception"]
        ELSE IF line.k # "num" THEN SyntaxError
        ELSE IF previous # Start /\ ~c.in_code_block THEN SyntaxError
        ELSE IF line.n <= c.last_line \/ line.n % 10 # 0 THEN SyntaxError
        ELSE [c EXCEPT !.last_line = line.n,
                       !.labels = register_label(c.labels, line.code,
                                                 Len(c.lines)),
                       !.in_code_block = TRUE,
                       !.lines = Append(c.lines, line.code)]

\* The loop of construct_program from index on; an exception ends it.
RECURSIVE ConstructLoop(_, _, _)
ConstructLoop(c, processed_lines, index) ==
    IF index >= Len(processed_lines) THEN c
    ELSE LET c1 == ConstructLine(c, processed_lines, index)
         IN  IF c1.err # "none" THEN c1
             ELSE ConstructLoop(c1, processed_lines, index + 1)

\* construct_program: the Program returned, or the exception raised.
construct_program(file_lines) ==
    LET c == ConstructLoop(ConstructStart, file_lines, 0)
    IN  IF c.err = "none"
        THEN [err |-> "none", name |-> c.name, byte_size |-> c.byte_size,
              lines |-> c.lines, labels |-> c.labels]
        ELSE [err |-> c.err, name |-> "None", byte_size |-> 0,
              lines |-> <<>>, labels |-> <<>>]

\* Line numbers of the sources: multiples of 10 with and without gaps, and 15.
LineNumbers == {10, 15, 20, 30, 40}

\* Code lines of the sources.
SourceCode == {Instr("lbl", <<Word("L")>>), Instr("cls", <<>>)}

\* What precedes the first numbered line, and what follows the last.
Preambles ==
    {<<Start>>, <<>>, <<ProgramLine("p"), Start>>, <<SizeLine(4, "BIN"), Start>>,
     <<SizeLine(3, "BIN"), Start>>}

Endings == {<<>>, <<Terminator>>}

Sources ==
    {pre \o [k \in 1..SourceLen |-> Numbered(ns[k], cs[k])] \o post :
        pre \in Preambles, post \in Endings,
        ns \in [1..SourceLen -> LineNumbers],
        cs \in [1..SourceLen -> SourceCode]}

\* The kinds of line of the sources about the structure of the code block.
StructureKinds == {"START", "PROGRAM", "SIZE", ".", "num"}

\* The line of kind ks[k] at place k: a directive, the terminator, or a
\* numbered line whose number is 10 times its rank among the numbered lines.
StructureLine(ks, k) ==
    IF ks[k] = "START" THEN Start
    ELSE IF ks[k] = "PROGRAM" THEN ProgramLine("p")
    ELSE IF ks[k] = "SIZE" THEN SizeLine(4, "BIN")
    ELSE IF ks[k] = "." THEN Terminator
    ELSE Numbered(10 * Cardinality({j \in 1..k : ks[j] = "num"}),
                  Instr("cls", <<>>))

\* Every order of up to SourceLen + 1 such lines.
StructureSources ==
    UNION {{[k \in 1..n |-> StructureLine(ks, k)] :
               ks \in [1..n -> StructureKinds]} : n \in 1..(SourceLen + 1)}

\* process_file before construct_program was called.
InitConstruct ==
    /\ source \in Sources \cup StructureSources
    /\ program = NoProgram
    /\ lines = <<>>
    /\ labels = <<>>
    /\ store = <<>>
    /\ vars = <<>>
    /\ last = NoCall
    /\ current_line = 0
    /\ comparison_result = "None"
    /\ compared = [set |-> FALSE, a |-> NoValue, b |-> NoValue]
    /\ status = "loading"
    /\ step = [line |-> 0, op |-> "none", outcome |-> "none", err |-> "none",
               out |-> NoValue]

\* program = construct_program(file_lines)
Construct ==
    /\ status = "loading"
    /\ LET p == construct_program(source)
       IN  /\ program' = Header(p.name, p.byte_size, p.err)
           /\ lines' = p.lines
           /\ labels' = p.labels
           /\ status' = IF p.err = "none" THEN "constructed" ELSE "rejected"
    /\ UNCHANGED <<store, vars, last, source, current_line, comparison_result,
                   compared, step>>

NextConstruct == Construct

SpecConstruct == InitConstruct /\ [][NextConstruct]_allvars

\* The source of a program whose code lines are ls: START and the lines
\* numbered 10, 20, ...
RunSource(ls) == <<Start>> \o [k \in 1..Len(ls) |-> Numbered(10 * k, ls[k])]

\* The label table construct_program builds: the index of the last
\* `lbl name` line for every name.
LabelsOf(ls) ==
    LET Declared == {k \in 1..Len(ls) : ls[k].op = "lbl" /\ Len(ls[k].args) = 1}
        LabelNames == {ls[k].args[1].name : k \in Declared}
    IN  [name \in LabelNames |->
            (CHOOSE k \in Declared :
                /\ ls[k].args[1].name = name
                /\ \A j \in Declared : ls[j].args[1].name = name => j <= k) - 1]

\* process_value
process_value(st, vs, tok) ==
    IF tok.k = "ref"
    THEN IF tok.name = "" THEN [err |-> "SyntaxError", value |-> NoValue]
         ELSE get_variable(st, vs, tok.name)
    ELSE IF tok.k = "num" THEN [err |-> "none", value |-> IntV(tok.n)]
    ELSE IF tok.k = "lit" THEN [err |-> "none", value |-> StrV(tok.s)]
    ELSE [err |-> "SyntaxError", value |-> NoValue]

\* handle_variable with variable_regex
handle_variable(tok) ==
    IF tok.k = "ref" /\ tok.name # ""
    THEN [err |-> "none", name |-> tok.name]
    ELSE [err |-> "SyntaxError", name |-> ""]

\* int(handle_variable(allocation, allocation_regex))
handle_allocation(tok) ==
    IF tok.k = "alloc" THEN [err |-> "none", n |-> tok.n]
    ELSE [err |-> "SyntaxError", n |-> 0]

\* str(int): the decimal digits, after a "-" for a negative integer.
RECURSIVE Digits(_)
Digits(n) ==
    IF n < 10 THEN <<48 + n>> ELSE Digits(n \div 10) \o <<48 + (n % 10)>>

IntToText(n) == IF n < 0 THEN <<45>> \o Digits(-n) ELSE Digits(n)

\* int(str) for a text of digits after an optional sign; any other text of
\* the model raises ValueError.
RECURSIVE DigitsValue(_)
DigitsValue(t) ==
    IF t = <<>> THEN 0
    ELSE 10 * DigitsValue(SubSeq(t, 1, Len(t) - 1)) + (t[Len(t)] - 48)

IsDigits(t) == t # <<>> /\ \A k \in 1..Len(t) : t[k] >= 48 /\ t[k] <= 57

TextToInt(t) ==
    IF IsDigits(t) THEN [err |-> "none", value |-> IntV(DigitsValue(t))]
    ELSE IF t # <<>> /\ t[1] \in {43, 45} /\ IsDigits(Tail(t))
    THEN [err |-> "none",
          value |-> IntV(IF t[1] = 45 THEN -DigitsValue(Tail(t))
                         ELSE DigitsValue(Tail(t)))]
    ELSE [err |-> "ValueError", value |-> NoValue]

\* {"INTEGER": int, "STRING": str}[cast_type](value)
Cast(cast_type, value) ==
    IF cast_type = "INTEGER"
    THEN IF value.t = "int" THEN [err |-> "none", value |-> value]
         ELSE TextToInt(value.s)
    ELSE IF value.t = "int"
         THEN [err |-> "none", value |-> StrV(IntToText(value.i))]
         ELSE [err |-> "none", value |-> value]

RECURSIVE Repeat(_, _)
Repeat(t, n) == IF n <= 0 THEN <<>> ELSE t \o Repeat(t, n - 1)

\* Variant of the operators in which sub subtracts its first operand from its
\* second.
Operate_sub_reversed(op, a, b) ==
    LET ints == a.t = "int" /\ b.t = "int"
        TypeError == [err |-> "TypeError", value |-> NoValue]
        ZeroDivision == [err |-> "ZeroDivisionError", value |-> NoValue]
    IN  IF op = "add"
        THEN IF ints THEN [err |-> "none", value |-> IntV(a.i + b.i)]
             ELSE IF a.t = "str" /\ b.t = "str"
             THEN [err |-> "none", value |-> StrV(a.s \o b.s)]
             ELSE TypeError
        ELSE IF op = "sub"
        THEN IF ints THEN [err |-> "none", value |-> IntV(b.i - a.i)]
             ELSE TypeError
        ELSE IF op = "mul"
        THEN IF ints THEN [err |-> "none", value |-> IntV(a.i * b.i)]
             ELSE IF a.t = "str" /\ b.t = "int"
             THEN [err |-> "none", value |-> StrV(Repeat(a.s, b.i))]
             ELSE IF a.t = "int" /\ b.t = "str"
             THEN [err |-> "none", value |-> StrV(Repeat(b.s, a.i))]
             ELSE TypeError
        ELSE IF op = "div"
        THEN IF ~ints THEN TypeError
             ELSE IF b.i = 0 THEN ZeroDivision
             ELSE [err |-> "none", value |-> FloatV]
        ELSE IF ~ints THEN TypeError
             ELSE IF b.i >= 0 THEN [err |-> "none", value |-> IntV(Pow(a.i, b.i))]
             ELSE IF a.i = 0 THEN ZeroDivision
             ELSE [err |-> "none", value |-> FloatV]

\* getattr(operator, ...)(a, b) on integers and texts.
Operate(op, a, b) ==
    LET ints == a.t = "int" /\ b.t = "int"
        TypeError == [err |-> "TypeError", value |-> NoValue]
        ZeroDivision == [err |-> "ZeroDivisionError", value |-> NoValue]
    IN  IF op = "add"
        THEN IF ints THEN [err |-> "none", value |-> IntV(a.i + b.i)]
             ELSE IF a.t = "str" /\ b.t = "str"
             THEN [err |-> "none", value |-> StrV(a.s \o b.s)]
             ELSE TypeError
        ELSE IF op = "sub"
        THEN IF ints THEN [err |-> "none", value |-> IntV(a.i - b.i)]
             ELSE TypeError
        ELSE IF op = "mul"
        THEN IF ints THEN [err |-> "none", value |-> IntV(a.i * b.i)]
             ELSE IF a.t = "str" /\ b.t = "int"
             THEN [err |-> "none", value |-> StrV(Repeat(a.s, b.i))]
             ELSE IF a.t = "int" /\ b.t = "str"
             THEN [err |-> "none", value |-> StrV(Repeat(b.s, a.i))]
             ELSE TypeError
        ELSE IF op = "div"
        THEN IF ~ints THEN TypeError
             ELSE IF b.i = 0 THEN ZeroDivision
             ELSE [err |-> "none", value |-> FloatV]
        ELSE IF ~ints THEN TypeError
             ELSE IF b.i >= 0 THEN [err |-> "none", value |-> IntV(Pow(a.i, b.i))]
             ELSE IF a.i = 0 THEN ZeroDivision
             ELSE [err |-> "none", value |-> FloatV]

\* What one instruction did: the exception it raised, the Stack after it, the
\* comparison it recorded, whether it took a jump and where to, and what it
\* printed.
Effect(err, st, vs, cmp, cmpd, taken, target, out) ==
    [err |-> err, store |-> st, vars |-> vs, cmp |-> cmp, compared |-> cmpd,
     taken |-> taken, target |-> target, out |-> out]

\* The instruction raised err, or returned, without touching the Stack.
Plain(err) ==
    Effect(err, store, vars, comparison_result, compared, FALSE, 0, NoValue)

\* The instruction ended in a call of the Stack with result r.
OnStack(r) ==
    Effect(r.err, r.store, r.vars, comparison_result, compared, FALSE, 0,
           NoValue)

\* case ["out", message]
DoOut(args) ==
    LET v == process_value(store, vars, args[1])
    IN  IF v.err # "none" THEN Plain(v.err)
        ELSE [Plain("none") EXCEPT !.out = v.value]

\* case ["alc", variable, allocation]
DoAlc(args) ==
    LET hv == handle_variable(args[1])
        ha == handle_allocation(args[2])
    IN  IF hv.err # "none" THEN Plain(hv.err)
        ELSE IF ha.err # "none" THEN Plain(ha.err)
        ELSE OnStack(allocate_variable(store, vars, hv.name, ha.n))

\* case ["inp", prompt, ">", variable], the line read being text
DoInp(args, text) ==
    LET v == process_value(store, vars, args[1])
        hv == handle_variable(args[2])
    IN  IF v.err # "none" THEN Plain(v.err)
        ELSE IF v.value.t # "str" THEN Plain("ValueError")
        ELSE IF hv.err # "none" THEN Plain(hv.err)
        ELSE OnStack(write_variable(store, vars, hv.name, StrV(text), FALSE))

\* case ["add" | "sub" | "mul" | "div" | "pow", num1, num2, ">", variable]
DoArith(op, args) ==
    LET hv == handle_variable(args[3])
        v1 == process_value(store, vars, args[1])
        v2 == process_value(store, vars, args[2])
        r == Operate(op, v1.value, v2.value)
    IN  IF hv.err # "none" THEN Plain(hv.err)
        ELSE IF v1.err # "none" THEN Plain(v1.err)
        ELSE IF v2.err # "none" THEN Plain(v2.err)
        ELSE IF r.err # "none" THEN Plain(r.err)
        ELSE OnStack(write_variable(store, vars, hv.name, r.value, FALSE))

\* case ["cst", variable, "STRING" | "INTEGER" as cast_type]
DoCst(args) ==
    LET hv == handle_variable(args[1])
        v == get_variable(store, vars, hv.name)
        c == Cast(args[2].name, v.value)
    IN  IF hv.err # "none" THEN Plain(hv.err)
        ELSE IF v.err # "none" THEN Plain(v.err)
        ELSE IF c.err # "none" THEN Plain(c.err)
        ELSE OnStack(write_variable(store, vars, hv.name, c.value, FALSE))

\* variable1 > variable2 on two values of the same type (texts compare by
\* code point, a proper prefix being the smaller).
RECURSIVE TextLess(_, _)
TextLess(a, b) ==
    IF b = <<>> THEN FALSE
    ELSE IF a = <<>> THEN TRUE
    ELSE IF a[1] # b[1] THEN a[1] < b[1]
    ELSE TextLess(Tail(a), Tail(b))

Less(a, b) == IF a.t = "int" THEN a.i < b.i ELSE TextLess(a.s, b.s)

\* The if / elif chain of case ["cmp", variable1, variable2].
Compare(a, b) ==
    IF a = b THEN [err |-> "none", result |-> "jeq"]
    ELSE IF a # b THEN [err |-> "none", result |-> "jne"]
    ELSE IF a.t # b.t THEN [err |-> "ValueError", result |-> "None"]
    ELSE IF Less(b, a) THEN [err |-> "none", result |-> "jgt"]
    ELSE IF Less(a, b) THEN [err |-> "none", result |-> "jlt"]
    ELSE IF ~Less(a, b) THEN [err |-> "none", result |-> "jge"]
    ELSE [err |-> "none", result |-> "jle"]

\* case ["cmp", variable1, variable2]
DoCmp(args) ==
    LET v1 == process_value(store, vars, args[1])
        v2 == process_value(store, vars, args[2])
        c == Compare(v1.value, v2.value)
    IN  IF v1.err # "none" THEN Plain(v1.err)
        ELSE IF v2.err # "none" THEN Plain(v2.err)
        ELSE IF c.err # "none" THEN Plain(c.err)
        ELSE [Plain("none") EXCEPT
                 !.cmp = c.result,
                 !.compared = [set |-> TRUE, a |-> v1.value, b |-> v2.value]]

\* case ["jeq" | "jnq" | "jgt" | "jlt" | "jge" | "jle" as jump_type, label]
DoJump(jump_type, args) ==
    IF comparison_result = jump_type
    THEN IF args[1].name \in DOMAIN labels
         THEN [Plain("none") EXCEPT !.taken = TRUE,
                                    !.target = labels[args[1].name]]
         ELSE Plain("KeyError")
    ELSE Plain("none")

\* case ["drp", variable]
DoDrp(args) ==
    LET hv == handle_variable(args[1])
    IN  IF hv.err # "none" THEN Plain(hv.err)
        ELSE OnStack(drop_variable(store, vars, hv.name))

\* case ["set", variable, value]
DoSet(args) ==
    LET hv == handle_variable(args[1])
        v == process_value(store, vars, args[2])
    IN  IF hv.err # "none" THEN Plain(hv.err)
        ELSE IF v.err # "none" THEN Plain(v.err)
        ELSE OnStack(write_variable(store, vars, hv.name, v.value, FALSE))

\* Variant of the end of an iteration that moves to the next line only when
\* the instruction raised nothing.
Finish_stays_on_error(e) ==
    LET instr == lines[current_line + 1]
        slx_code == IF e.err = "none" THEN 0 ELSE 1
        w == write_variable(e.store, e.vars, "slx", IntV(slx_code), TRUE)
        Record(outcome) ==
            [line |-> current_line, op |-> instr.op, outcome |-> outcome,
             err |-> e.err, out |-> e.out]
    IN  /\ comparison_result' = e.cmp
        /\ compared' = e.compared
        /\ UNCHANGED <<source, program, lines, labels, last>>
        /\ IF e.err \in StackErrors
           THEN /\ store' = e.store
                /\ vars' = e.vars
                /\ current_line' = current_line
                /\ status' = "fatal"
                /\ step' = Record("fatal")
           ELSE IF e.taken
           THEN /\ store' = e.store
                /\ vars' = e.vars
                /\ current_line' = e.target
                /\ status' = status
                /\ step' = Record("jump")
           ELSE /\ store' = w.store
                /\ vars' = w.vars
                /\ current_line' =
                      IF e.err = "none" THEN current_line + 1 ELSE current_line
                /\ status' = status
                /\ step' = Record(IF e.err = "none" THEN "ok" ELSE "error")

\* The end of one iteration of the loop, the instruction having had effect e:
\* a StackError is raised again and ends the run, a taken jump continues at
\* its target, and anything else writes slx and moves to the next line.
Finish(e) ==
    LET instr == lines[current_line + 1]
        slx_code == IF e.err = "none" THEN 0 ELSE 1
        w == write_variable(e.store, e.vars, "slx", IntV(slx_code), TRUE)
        Record(outcome) ==
            [line |-> current_line, op |-> instr.op, outcome |-> outcome,
             err |-> e.err, out |-> e.out]
    IN  /\ comparison_result' = e.cmp
        /\ compared' = e.compared
        /\ UNCHANGED <<source, program, lines, labels, last>>
        /\ IF e.err \in StackErrors
           THEN /\ store' = e.store
                /\ vars' = e.vars
                /\ current_line' = current_line
                /\ status' = "fatal"
                /\ step' = Record("fatal")
           ELSE IF e.taken
           THEN /\ store' = e.store
                /\ vars' = e.vars
                /\ current_line' = e.target
                /\ status' = status
                /\ step' = Record("jump")
           ELSE /\ store' = w.store
                /\ vars' = w.vars
                /\ current_line' = current_line + 1
                /\ status' = status
                /\ step' = Record(IF e.err = "none" THEN "ok" ELSE "error")

\* The loop is at an instruction of opcode op with n operands.
At(ops, n) ==
    /\ status = "running"
    /\ current_line <= Len(lines) - 1
    /\ lines[current_line + 1].op \in ops
    /\ Len(lines[current_line + 1].args) = n

Args == lines[current_line + 1].args

\* Lines the input collaborator supplies to inp: "hi" and "12".
InputLines == {<<104, 105>>, <<49, 50>>}

ExecOut == At({"out"}, 1) /\ Finish(DoOut(Args))

ExecLbl == At({"lbl"}, 1) /\ Finish(Plain("none"))

ExecCls == At({"cls"}, 0) /\ Finish(Plain("none"))

ExecAlc == At({"alc"}, 2) /\ Finish(DoAlc(Args))

ExecInp == At({"inp"}, 2) /\ \E text \in InputLines : Finish(DoInp(Args, text))

ExecArith == At(ArithOps, 3) /\ Finish(DoArith(lines[current_line + 1].op, Args))

ExecCst ==
    /\ At({"cst"}, 2)
    /\ Args[2] \in {Word("STRING"), Word("INTEGER")}
    /\ Finish(DoCst(Args))

ExecCmp == At({"cmp"}, 2) /\ Finish(DoCmp(Args))

ExecJump == At(JumpOps, 1) /\ Finish(DoJump(lines[current_line + 1].op, Args))

ExecDrp == At({"drp"}, 1) /\ Finish(DoDrp(Args))

ExecSet == At({"set"}, 2) /\ Finish(DoSet(Args))

\* The shapes the match statement knows: opcode and number of operands.
KnownShape(instr) ==
    LET n == Len(instr.args)
    IN  \/ instr.op \in {"out", "lbl", "drp"} \cup JumpOps /\ n = 1
        \/ instr.op = "cls" /\ n = 0
        \/ instr.op \in {"alc", "inp", "cmp", "set"} /\ n = 2
        \/ instr.op = "cst" /\ n = 2
              /\ instr.args[2] \in {Word("STRING"), Word("INTEGER")}
        \/ instr.op \in ArithOps /\ n = 3

\* case _ as default
ExecDefault ==
    /\ status = "running"
    /\ current_line <= Len(lines) - 1
    /\ ~KnownShape(lines[current_line + 1])
    /\ Finish(Plain("SyntaxError"))

\* The loop condition fails: the run ends normally.
Halt ==
    /\ status = "running"
    /\ current_line > Len(lines) - 1
    /\ status' = "done"
    /\ UNCHANGED <<store, vars, last, source, program, lines, labels,
                   current_line, comparison_result, compared, step>>

\* Instructions of the programs about comparisons and jumps; L is declared
\* by every such program, by some more than once, and M by none.
ControlInstructions ==
    {Instr("cmp", <<Num(1), Num(1)>>), Instr("cmp", <<Num(2), Num(1)>>),
     Instr("cmp", <<Num(1), Num(2)>>), Instr("cmp", <<Num(1), Lit(<<97>>)>>),
     Instr("nop", <<>>), Instr("jeq", <<Word("M")>>),
     Instr("lbl", <<Word("L")>>)}
    \cup {Instr(j, <<Word("L")>>) : j \in JumpOps}

\* Instructions of the programs about variables.
MemoryInstructions ==
    {Instr("alc", <<Ref("x"), AllocTok(2)>>),
     Instr("set", <<Ref("x"), Num(5)>>),
     Instr("set", <<Ref("x"), Lit(<<104, 105>>)>>),
     Instr("add", <<Ref("x"), Num(1), Ref("x")>>),
     Instr("div", <<Num(4), Num(2), Ref("x")>>),
     Instr("cst", <<Ref("x"), Word("STRING")>>),
     Instr("inp", <<Lit(<<63>>), Ref("x")>>),
     Instr("out", <<Ref("x")>>),
     Instr("drp", <<Ref("x")>>),
     Instr("cls", <<>>)}

\* Instructions of the programs about arithmetic and about values that do
\* not fit: x has 2 bytes and y has 1.
ArithmeticInstructions ==
    {Instr("set", <<Ref("x"), Num(10)>>),
     Instr("set", <<Ref("x"), Num(100)>>),
     Instr("add", <<Ref("x"), Num(5), Ref("y")>>),
     Instr("sub", <<Num(5), Ref("x"), Ref("y")>>),
     Instr("mul", <<Ref("x"), Ref("x"), Ref("y")>>),
     Instr("out", <<Ref("y")>>),
     Instr("cst", <<Ref("x"), Word("STRING")>>),
     Instr("inp", <<Lit(<<63>>), Ref("y")>>),
     Instr("set", <<Ref("y"), Lit(<<104, 105>>)>>),
     Instr("set", <<Ref("slx"), Num(5)>>),
     Instr("drp", <<Ref("slx")>>),
     Instr("alc", <<Ref("slx"), AllocTok(1)>>),
     Instr("cst", <<Ref("slx"), Word("STRING")>>),
     Instr("add", <<Num(1), Num(1), Ref("sly")>>),
     Instr("inp", <<Lit(<<63>>), Ref("slz")>>)}

Bodies(instructions) == [1..BodyLen -> instructions]

\* The families of programs run: a body of control instructions after or
\* before the line `lbl L`, a body of memory instructions after the line
\* `alc &x :[2]`, and a body of arithmetic instructions after `alc &x :[2]`
\* and `alc &y :[1]`.
Family(before, body, after) == [before |-> before, body |-> body, after |-> after]

Families ==
    {Family(<<Instr("lbl", <<Word("L")>>)>>, ControlInstructions, <<>>),
     Family(<<>>, ControlInstructions, <<Instr("lbl", <<Word("L")>>)>>),
     Family(<<Instr("alc", <<Ref("x"), AllocTok(2)>>)>>, MemoryInstructions, <<>>),
     Family(<<Instr("alc", <<Ref("x"), AllocTok(2)>>),
              Instr("alc", <<Ref("y"), AllocTok(1)>>)>>,
            ArithmeticInstructions, <<>>)}

\* process_file up to the loop: the program is constructed, the Stack created.
InitEngine ==
    /\ \E family \in Families :
          \E body \in Bodies(family.body) :
             lines = family.before \o body \o family.after
    /\ source = RunSource(lines)
    /\ program = Header("None", StackSize, "none")
    /\ lines = construct_program(source).lines
    /\ labels = construct_program(source).labels
    /\ store = StackInitStore(StackSize)
    /\ vars = StackInitVars
    /\ last = NoCall
    /\ current_line = 0
    /\ comparison_result = "None"
    /\ compared = [set |-> FALSE, a |-> NoValue, b |-> NoValue]
    /\ status = "running"
    /\ step = [line |-> 0, op |-> "none", outcome |-> "none", err |-> "none",
               out |-> NoValue]

NextEngine ==
    \/ ExecOut
    \/ ExecLbl
    \/ ExecCls
    \/ ExecAlc
    \/ ExecInp
    \/ ExecArith
    \/ ExecCst
    \/ ExecCmp
    \/ ExecJump
    \/ ExecDrp
    \/ ExecSet
    \/ ExecDefault
    \/ Halt

SpecEngine == InitEngine /\ [][NextEngine]_allvars

(* ---------------------- properties of the Stack ------------------------ *)

\* The names bound to arena variables (Register, not ReservedRegister).
ArenaNames(vs) == {n \in DOMAIN vs : vs[n].kind = "Register"}

\* The cells (0-based) of an allocation.
Cells(a) == a.start..a.end

\* Cells i .. i+size-1 exist and are all free.
FreeWindow(st, i, size) ==
    /\ i >= 0
    /\ i + size <= Len(st)
    /\ \A c \in i..(i + size - 1) : st[c + 1] = None

\* The arena holds a run of at least size consecutive free cells.
HasFreeRun(st, size) == \E i \in 0..Len(st) : FreeWindow(st, i, size)

\* Every cell of the allocation is allocated and was never written: no write
\* has succeeded since the allocation (a successful write fills every cell
\* with a byte).
NeverWritten(st, a) == \A c \in Cells(a) : st[c + 1] = ALLOCATED

\* C1: in every state reached by allocate_variable, write_variable and
\* drop_variable calls, every live allocation has end = start + size - 1 and
\* 0 <= start <= end < N, and no two live allocations share a cell.
C1_LiveAllocationsDisjoint ==
    /\ Len(store) = StackSize
    /\ \A n \in ArenaNames(vars) :
          LET a == vars[n].allocation
          IN  /\ a.end = a.start + a.size - 1
              /\ 0 <= a.start /\ a.start <= a.end /\ a.end < StackSize
    /\ \A n, m \in ArenaNames(vars) :
          n # m => Cells(vars[n].allocation) \cap Cells(vars[m].allocation) = {}

\* Two live allocations with a free cell in front of one of them, which a
\* drop left there, the last call being a successful allocation.
C1_Witness ==
    /\ last.op = "allocate_variable" /\ last.err = "none"
    /\ ArenaNames(vars) = {"x", "y"}
    /\ \E n \in ArenaNames(vars) :
          \E c \in 0..(vars[n].allocation.start - 1) : store[c + 1] = None

\* C2: allocate is first-fit: a successful allocation starts at the smallest
\* index whose window of size cells is free, and exactly the cells of that
\* window become allocated-uninitialized.
C2_FirstFit ==
    [][(last'.op = "allocate_variable" /\ last'.err = "none") =>
         LET a == vars'[last'.name].allocation
         IN  /\ FreeWindow(store, a.start, a.size)
             /\ \A i \in 0..(a.start - 1) : ~FreeWindow(store, i, a.size)
             /\ Len(store') = Len(store)
             /\ \A c \in 0..(Len(store) - 1) :
                   store'[c + 1] =
                       IF c \in Cells(a) THEN ALLOCATED ELSE store[c + 1]
      ]_allvars

\* An allocation was just made in the first of two free runs that both fit.
C2_Witness ==
    /\ last.op = "allocate_variable" /\ last.err = "none"
    /\ LET a == vars[last.name].allocation
       IN  \E j \in (a.end + 2)..(StackSize - 1) :
              /\ FreeWindow(store, j, a.size)
              /\ \E c \in (a.end + 1)..(j - 1) : store[c + 1] # None

\* C3: for every arena state and every size alc can request (0 and N
\* included), allocate succeeds iff the arena holds a run of at least size
\* free cells; otherwise it raises the out-of-memory condition and leaves
\* every cell unchanged.
C3_AllocateIffFreeRun ==
    \A size \in Sizes :
        LET r == allocate(store, size)
        IN  /\ (r.err = "none") <=> HasFreeRun(store, size)
            /\ r.err # "none" => (r.err = "MemoryOverflow" /\ r.store = store)

\* v lies in the signed range of size bytes, -2^(8 size - 1) .. 2^(8 size - 1) - 1.
\* Every integer of the model lies in the range of 4 bytes and more.
InSignedRange(v, size) ==
    \/ size >= 4
    \/ /\ size >= 1
       /\ -Pow(2, 8 * size - 1) <= v
       /\ v < Pow(2, 8 * size - 1)

\* Byte k (1 = most significant) of the size-byte two's complement of v: the
\* base-256 digit of v when v >= 0, and of the one's complement of -v - 1
\* when v < 0.
TwosComplementByte(v, size, k) ==
    IF v >= 0 THEN Shr8(v, size - k) % 256
    ELSE 255 - (Shr8(-v - 1, size - k) % 256)

\* Integers tried on every allocation: the written ones, the limits of the
\* signed range of 1, 2 and 3 bytes and the integers next to them.
ProbeInts ==
    IntValues \cup {-1, 0, 255} \cup
    UNION {{-Pow(2, 8 * w - 1) - 1, -Pow(2, 8 * w - 1),
            Pow(2, 8 * w - 1) - 1, Pow(2, 8 * w - 1)} : w \in 1..3}

\* C4: on every allocation (size s >= 1), writing an integer v of the signed
\* range of s bytes succeeds, fills exactly the s cells with the fixed-width
\* two's complement of v, and an INTEGER read then returns v; writing an
\* integer outside that range fails.
C4_IntegerRoundTrip ==
    \A n \in ArenaNames(vars), v \in ProbeInts :
        LET a == vars[n].allocation
            w == write(store, a, IntV(v))
        IN  IF InSignedRange(v, a.size)
            THEN /\ w.err = "none"
                 /\ Len(w.store) = Len(store)
                 /\ \A c \in 0..(Len(store) - 1) :
                       w.store[c + 1] =
                           IF c \in Cells(a)
                           THEN TwosComplementByte(v, a.size, c - a.start + 1)
                           ELSE store[c + 1]
                 /\ get(w.store, a, "INTEGER") =
                       [err |-> "none", value |-> IntV(v)]
            ELSE w.err # "none"

\* -5 was just written to a 2-byte variable and reads back as -5.
C4_Witness ==
    /\ last.op = "write_variable" /\ last.err = "none"
    /\ last.name \in ArenaNames(vars)
    /\ vars[last.name].allocation.size = 2
    /\ vars[last.name].datatype = "INTEGER"
    /\ Slice(store, vars[last.name].allocation.start,
             vars[last.name].allocation.end + 1) = <<255, 251>>
    /\ get_variable(store, vars, last.name) =
          [err |-> "none", value |-> IntV(-5)]

\* Texts tried on every allocation: "", "hi", "a\x00b", "\x00a", "abcd".
ProbeTexts ==
    {<<>>, <<104, 105>>, <<97, 0, 98>>, <<0, 97>>, <<97, 98, 99, 100>>}

\* C5: a STRING read removes only the trailing zero bytes: on every
\* allocation of size s, writing an ASCII text t of length <= s whose last
\* character is not NUL and reading it back as STRING returns exactly t, also
\* when t holds a NUL before its end.
C5_StringRoundTrip ==
    \A n \in ArenaNames(vars), t \in ProbeTexts :
        LET a == vars[n].allocation
            w == write(store, a, StrV(t))
        IN  (Len(t) <= a.size /\ (t = <<>> \/ t[Len(t)] # 0)) =>
                /\ w.err = "none"
                /\ get(w.store, a, "STRING") =
                      [err |-> "none", value |-> StrV(t)]

\* C6: a read of a variable to which no write has succeeded since its
\* allocation raises the null-data condition.
C6_UnwrittenReadIsNullData ==
    (/\ last.op = "get_variable"
     /\ last.name \in ArenaNames(vars)
     /\ NeverWritten(store, vars[last.name].allocation))
        => last.err = "NullDataInOperation"

\* C7: drop_variable of a bound arena variable frees every cell of its
\* allocation and no other, and removes the binding: a read, write or drop
\* of the name then raises not-allocated, and allocate_variable with the same
\* name and size succeeds and, when no earlier free run of that size exists,
\* returns the same start and end.
C7_DropFreesAndUnbinds ==
    [][(last'.op = "drop_variable" /\ last'.err = "none") =>
         LET n == last'.name
             a == vars[n].allocation
             r == allocate_variable(store', vars', n, a.size)
         IN  /\ n \notin DOMAIN vars'
             /\ \A m \in DOMAIN vars' : vars'[m] = vars[m]
             /\ Len(store') = Len(store)
             /\ \A c \in 0..(Len(store) - 1) :
                   store'[c + 1] = IF c \in Cells(a) THEN None ELSE store[c + 1]
             /\ get_variable(store', vars', n).err = "NotAllocated"
             /\ drop_variable(store', vars', n).err = "NotAllocated"
             /\ \A v \in WriteValues :
                   write_variable(store', vars', n, v, FALSE).err = "NotAllocated"
             /\ r.err = "none"
             /\ (\A i \in 0..(a.start - 1) : ~FreeWindow(store', i, a.size))
                   => r.vars[n].allocation = a
      ]_allvars

\* A variable was just dropped while the cells in front of its range are
\* taken, so that a reallocation can only reuse its offsets.
C7_Witness ==
    /\ last.op = "drop_variable" /\ last.err = "none"
    /\ last.name \notin DOMAIN vars
    /\ store[1] # None
    /\ \E c \in 1..(StackSize - 1) : store[c + 1] = None

(* ---------------------- properties of the engine ----------------------- *)

\* The value of the error flag register.
Slx == vars["slx"].value

\* The label operand of the instruction run last.
StepLabel == lines[step.line + 1].args[1].name

\* C8: after every instruction step that does not end the run, slx is 1 if
\* the instruction raised a usage error and 0 if it completed successfully.
C8_ErrorFlagProtocol ==
    (status # "fatal" /\ step.outcome # "none") =>
        /\ step.outcome = "error" => Slx = IntV(1)
        /\ step.outcome \in {"ok", "jump"} => Slx = IntV(0)

\* C9: a jump is taken exactly when the last comparison result is the one of
\* its opcode: after a cmp of equal values jeq L continues at the index
\* recorded for L, after a cmp of unequal values jnq L does, and a jump that
\* is not taken leaves control at the next instruction.
C9_JumpTakenIffResultMatches ==
    (/\ step.op \in JumpOps
     /\ step.outcome \in {"ok", "jump"}
     /\ compared.set
     /\ StepLabel \in DOMAIN labels)
        => /\ step.outcome = "jump" => current_line = labels[StepLabel]
           /\ step.outcome = "ok" => current_line = step.line + 1
           /\ step.op = "jeq" =>
                 (step.outcome = "jump" <=> compared.a = compared.b)
           /\ step.op = "jnq" =>
                 (step.outcome = "jump" <=> compared.a # compared.b)

\* C10: after cmp a b on integers a > b, jgt L continues at label L and jlt L
\* does not jump; for a < b, jlt L jumps and jgt L does not.
C10_OrderedJumps ==
    (/\ step.op \in {"jgt", "jlt"}
     /\ step.outcome \in {"ok", "jump"}
     /\ compared.set
     /\ compared.a.t = "int" /\ compared.b.t = "int"
     /\ compared.a.i # compared.b.i
     /\ StepLabel \in DOMAIN labels)
        => LET matches == IF step.op = "jgt" THEN compared.a.i > compared.b.i
                          ELSE compared.a.i < compared.b.i
           IN  IF matches
               THEN step.outcome = "jump" /\ current_line = labels[StepLabel]
               ELSE step.outcome = "ok" /\ current_line = step.line + 1

\* C11: cmp a b where a and b resolve to values of different variants (one
\* integer, one text) is a recoverable usage error: after the instruction slx
\* is 1, the last comparison result is unchanged and execution continues at
\* the next instruction.
C11_MixedCompareIsRecoverable ==
    [][(/\ At({"cmp"}, 2)
        /\ process_value(store, vars, Args[1]).err = "none"
        /\ process_value(store, vars, Args[2]).err = "none"
        /\ process_value(store, vars, Args[1]).value.t #
              process_value(store, vars, Args[2]).value.t)
       => /\ Slx' = IntV(1)
          /\ comparison_result' = comparison_result
          /\ current_line' = current_line + 1
          /\ status' = "running"
      ]_allvars

\* The write the instruction is about to make in the current state, its
\* operands having been evaluated without an exception: the target name and
\* the value (text being the line inp reads).
Stores(instr, text) ==
    LET args == instr.args
        No == [ok |-> FALSE, name |-> "", value |-> NoValue]
        Yes(name, value) == [ok |-> TRUE, name |-> name, value |-> value]
    IN  IF ~KnownShape(instr) THEN No
        ELSE IF instr.op = "set"
        THEN LET hv == handle_variable(args[1])
                 v == process_value(store, vars, args[2])
             IN  IF hv.err = "none" /\ v.err = "none"
                 THEN Yes(hv.name, v.value) ELSE No
        ELSE IF instr.op \in ArithOps
        THEN LET hv == handle_variable(args[3])
                 v1 == process_value(store, vars, args[1])
                 v2 == process_value(store, vars, args[2])
             IN  IF /\ hv.err = "none" /\ v1.err = "none" /\ v2.err = "none"
                    /\ Operate(instr.op, v1.value, v2.value).err = "none"
                 THEN Yes(hv.name, Operate(instr.op, v1.value, v2.value).value)
                 ELSE No
        ELSE IF instr.op = "cst"
        THEN LET hv == handle_variable(args[1])
                 v == get_variable(store, vars, hv.name)
             IN  IF /\ hv.err = "none" /\ v.err = "none"
                    /\ Cast(args[2].name, v.value).err = "none"
                 THEN Yes(hv.name, Cast(args[2].name, v.value).value)
                 ELSE No
        ELSE IF instr.op = "inp"
        THEN LET v == process_value(store, vars, args[1])
                 hv == handle_variable(args[2])
             IN  IF v.err = "none" /\ v.value.t = "str" /\ hv.err = "none"
                 THEN Yes(hv.name, StrV(text)) ELSE No
        ELSE No

\* The value is too large for the allocation of the arena variable name: an
\* integer outside the signed range of its size bytes, or a text longer than
\* its size.
TooLarge(name, value) ==
    /\ name \in ArenaNames(vars)
    /\ \/ value.t = "int" /\ ~InSignedRange(value.i, vars[name].allocation.size)
       \/ value.t = "str" /\ Len(value.s) > vars[name].allocation.size

\* C12: storing a value too large for its allocation is fatal: when set, an
\* arithmetic opcode, cst or inp writes an integer outside the signed range
\* of the target's allocation, or a text longer than it, the run terminates
\* at that instruction and no later instruction executes.
C12_OversizedStoreIsFatal ==
    [][/\ status # "fatal"
       /\ \A text \in InputLines :
             LET instr == lines[current_line + 1]
                 w == Stores(instr, text)
             IN  (/\ status = "running"
                  /\ current_line <= Len(lines) - 1
                  /\ w.ok
                  /\ (instr.op = "inp" => Finish(DoInp(Args, text)))
                  /\ TooLarge(w.name, w.value))
                 => (status' = "fatal" /\ current_line' = current_line)
      ]_allvars

\* The operand tokens the instruction evaluates with process_value (for cst:
\* reads with get_variable), in the order of evaluation.
ReadTokens(instr) ==
    IF instr.op \in {"out", "inp", "cst"} THEN <<instr.args[1]>>
    ELSE IF instr.op = "set" THEN <<instr.args[2]>>
    ELSE IF instr.op \in ArithOps \cup {"cmp"}
    THEN <<instr.args[1], instr.args[2]>>
    ELSE <<>>

\* The token naming the target, which set, cst and the arithmetic opcodes
\* parse before they evaluate an operand.
TargetParsedFirst(instr) ==
    IF instr.op \in {"set", "cst"} THEN handle_variable(instr.args[1]).err = "none"
    ELSE IF instr.op \in ArithOps THEN handle_variable(instr.args[3]).err = "none"
    ELSE TRUE

Unbound(name) == name \notin DOMAIN vars

IsReserved(name) == name \in DOMAIN vars /\ vars[name].kind = "ReservedRegister"

\* The instruction reads an unbound name: an operand &name with name unbound,
\* the operands before it having been evaluated without an exception.
ReadsUnbound(instr) ==
    /\ KnownShape(instr)
    /\ TargetParsedFirst(instr)
    /\ \E k \in 1..Len(ReadTokens(instr)) :
          /\ ReadTokens(instr)[k].k = "ref"
          /\ ReadTokens(instr)[k].name # ""
          /\ Unbound(ReadTokens(instr)[k].name)
          /\ \A j \in 1..(k - 1) :
                process_value(store, vars, ReadTokens(instr)[j]).err = "none"

\* The instruction writes an unbound name or a reserved register.
WritesUnboundOrReserved(instr) ==
    /\ Stores(instr, <<>>).ok
    /\ Unbound(Stores(instr, <<>>).name) \/ IsReserved(Stores(instr, <<>>).name)

\* The instruction drops an unbound name or a reserved register.
DropsUnboundOrReserved(instr) ==
    /\ KnownShape(instr)
    /\ instr.op = "drp"
    /\ handle_variable(instr.args[1]).err = "none"
    /\ \/ Unbound(handle_variable(instr.args[1]).name)
       \/ IsReserved(handle_variable(instr.args[1]).name)

\* C13: an instruction that reads, writes or drops an unbound variable name,
\* or that writes or drops a reserved register, raises a fatal error: the
\* engine halts immediately, no later instruction executes, and the arena,
\* the bindings and the reserved register values are as before it.
C13_UnboundOrReservedIsFatal ==
    [][/\ status # "fatal"
       /\ LET instr == lines[current_line + 1]
          IN  (/\ status = "running"
               /\ current_line <= Len(lines) - 1
               /\ \/ ReadsUnbound(instr)
                  \/ WritesUnboundOrReserved(instr)
                  \/ DropsUnboundOrReserved(instr))
              => /\ status' = "fatal"
                 /\ current_line' = current_line
                 /\ store' = store
                 /\ vars' = vars
      ]_allvars

\* The run ended at a write or drop of a reserved register while arena
\* variables were bound.
C13_Witness ==
    /\ status = "fatal"
    /\ step.err = "ReservedName"
    /\ ArenaNames(vars) = {"x", "y"}
    /\ current_line = step.line
    /\ current_line < Len(lines) - 1

(* -------------------- properties of the construction ------------------- *)

\* The line numbers of the numbered lines of a source, in order.
NumbersOf(src) ==
    LET numbered == SelectSeq(src, LAMBDA l : l.k = "num")
    IN  [k \in 1..Len(numbered) |-> numbered[k].n]

\* Strictly increasing multiples of 10 with no gap: every number is a
\* multiple of 10 and each is 10 more than the one before it.
GaplessTens(ns) ==
    /\ \A k \in 1..Len(ns) : ns[k] > 0 /\ ns[k] % 10 = 0
    /\ \A k \in 2..Len(ns) : ns[k] = ns[k - 1] + 10

\* The source has nothing wrong besides, possibly, its numbering: START, the
\* numbered lines of a code block, and the terminator or nothing after them.
WellFormedBesidesNumbers(src) ==
    /\ Len(src) >= 2
    /\ src[1] = Start
    /\ src[2].k = "num"
    /\ \A k \in 2..Len(src) :
          src[k].k = "num" \/ (k = Len(src) /\ src[k] = Terminator)

\* C14: construct_program accepts a source only if its numbered lines are
\* strictly increasing multiples of 10 with no gap in the numbering: 10, 20,
\* 30 is accepted, and 10, 20, 40 or 10, 15 or 10, 10 are rejected with a
\* construction error before any instruction runs.
C14_GaplessLineNumbers ==
    (status \in {"constructed", "rejected"} /\ WellFormedBesidesNumbers(source))
        => /\ status = "constructed" <=> GaplessTens(NumbersOf(source))
           /\ status = "rejected" =>
                 (program.err = "SyntaxError" /\ lines = <<>> /\ current_line = 0)

\* a + b, a - b or a * b for the opcodes add, sub and mul.
ArithmeticResult(op, a, b) ==
    IF op = "add" THEN a + b ELSE IF op = "sub" THEN a - b ELSE a * b

\* C15: for add, sub and mul with operands that resolve to integers a and b
\* whose result fits the signed width of the target's allocation,
\* `<op> a b > &name` leaves name holding exactly the result (a following
\* read or `out &name` yields it) with slx = 0 and no other variable changed.
C15_ArithmeticStoresResult ==
    [][LET instr == lines[current_line + 1]
           hv == handle_variable(instr.args[3])
           v1 == process_value(store, vars, instr.args[1])
           v2 == process_value(store, vars, instr.args[2])
           result == ArithmeticResult(instr.op, v1.value.i, v2.value.i)
           a == vars[hv.name].allocation
       IN  /\ (/\ At({"add", "sub", "mul"}, 3)
               /\ hv.err = "none" /\ v1.err = "none" /\ v2.err = "none"
               /\ v1.value.t = "int" /\ v2.value.t = "int"
               /\ hv.name \in ArenaNames(vars)
               /\ InSignedRange(result, a.size))
              => /\ status' = "running"
                 /\ current_line' = current_line + 1
                 /\ get_variable(store', vars', hv.name) =
                       [err |-> "none", value |-> IntV(result)]
                 /\ Slx' = IntV(0)
                 /\ DOMAIN vars' = DOMAIN vars
                 /\ vars'[hv.name].allocation = a
                 /\ \A m \in DOMAIN vars \ {hv.name, "slx"} : vars'[m] = vars[m]
                 /\ Len(store') = Len(store)
                 /\ \A c \in 0..(Len(store) - 1) :
                       c \notin Cells(a) => store'[c + 1] = store[c + 1]
           /\ (/\ At({"out"}, 1)
               /\ process_value(store, vars, instr.args[1]).err = "none")
              => /\ step'.outcome = "ok"
                 /\ step'.out = process_value(store, vars, instr.args[1]).value
      ]_allvars

\* x (2 bytes) was set to 10, `add &x 5 > &y` ran with y freshly allocated,
\* and `out &y` has just printed 15.
C15_Witness ==
    /\ step.op = "out" /\ step.outcome = "ok" /\ step.out = IntV(15)
    /\ step.line = 4
    /\ lines[3] = Instr("set", <<Ref("x"), Num(10)>>)
    /\ lines[4] = Instr("add", <<Ref("x"), Num(5), Ref("y")>>)
    /\ lines[5] = Instr("out", <<Ref("y")>>)
    /\ get_variable(store, vars, "x") = [err |-> "none", value |-> IntV(10)]
    /\ Slx = IntV(0)

\* Values written first: integers and texts of the probes.
FirstValues == {IntV(v) : v \in ProbeInts} \cup {StrV(t) : t \in ProbeTexts}

\* Texts written second: the ASCII texts of the probes without a NUL
\* character (what a read makes of a NUL is the matter of C5).
SecondTexts == {t \in ProbeTexts : \A k \in 1..Len(t) : t[k] # 0}

\* C16: a successful write overwrites the whole byte range of the
\* allocation: after writing a value and then a text t2 to the same variable,
\* the cells of the allocation hold the bytes of t2 and then zeros, a read
\* returns exactly t2, and no cell outside the allocation has changed.
C16_WriteOverwritesWholeRange ==
    \A n \in ArenaNames(vars), v1 \in FirstValues, t2 \in SecondTexts :
        LET a == vars[n].allocation
            w1 == write_variable(store, vars, n, v1, FALSE)
            w2 == write_variable(w1.store, w1.vars, n, StrV(t2), FALSE)
        IN  (w1.err = "none" /\ Len(t2) <= a.size) =>
                /\ w2.err = "none"
                /\ Len(w2.store) = Len(store)
                /\ \A c \in 0..(Len(store) - 1) :
                      w2.store[c + 1] =
                          IF c \notin Cells(a) THEN store[c + 1]
                          ELSE IF c - a.start < Len(t2)
                          THEN t2[c - a.start + 1]
                          ELSE 0
                /\ get_variable(w2.store, w2.vars, n) =
                      [err |-> "none", value |-> StrV(t2)]

\* "hi" was just written to a variable of 3 bytes that held a longer text or
\* an integer: its cells are h, i and a zero.
C16_Witness ==
    /\ last.op = "write_variable" /\ last.err = "none"
    /\ last.name \in ArenaNames(vars)
    /\ vars[last.name].allocation.size = 3
    /\ Slice(store, vars[last.name].allocation.start,
             vars[last.name].allocation.end + 1) = <<104, 105, 0>>
    /\ get_variable(store, vars, last.name) =
          [err |-> "none", value |-> StrV(<<104, 105>>)]

\* Allocations handed to write: every start and every size from 1 up to one
\* cell more than the arena holds.
ProbeAllocations ==
    {Allocation(start, start + size - 1, size) :
        start \in 0..(StackSize + 1), size \in 1..(StackSize + 1)}

\* C17: write(allocation, value) fails for every allocation whose end lies
\* beyond the last arena cell (end > N - 1) and leaves the arena unchanged,
\* so that no write changes the number of cells of the arena.
C17_WriteBeyondArenaFails ==
    \A a \in ProbeAllocations, v \in {IntV(5), StrV(<<97>>)} :
        LET w == write(store, a, v)
        IN  /\ a.end > Len(store) - 1 => (w.err # "none" /\ w.store = store)
            /\ Len(w.store) = Len(store)

\* C18: allocate_variable is all-or-nothing: if name is already bound (to an
\* arena variable or to a reserved register) it fails without changing any
\* cell or binding; if the underlying allocate fails, no binding for name is
\* created; on success name is bound to the new allocation with datatype
\* NOTSET and no other binding and no cell outside the new range changes.
C18_AllocateVariableAllOrNothing ==
    [][last'.op = "allocate_variable" =>
         LET n == last'.name
         IN  /\ n \in DOMAIN vars =>
                   (last'.err = "ValueError" /\ store' = store /\ vars' = vars)
             /\ last'.err # "none" => (store' = store /\ vars' = vars)
             /\ last'.err = "none" =>
                   /\ n \notin DOMAIN vars
                   /\ DOMAIN vars' = DOMAIN vars \cup {n}
                   /\ vars'[n].kind = "Register"
                   /\ vars'[n].datatype = "NOTSET"
                   /\ \A m \in DOMAIN vars : vars'[m] = vars[m]
                   /\ Len(store') = Len(store)
                   /\ \A c \in 0..(Len(store) - 1) :
                         IF c \in Cells(vars'[n].allocation)
                         THEN store[c + 1] = None /\ store'[c + 1] = ALLOCATED
                         ELSE store'[c + 1] = store[c + 1]
      ]_allvars

\* An allocation for the bound name x has just failed while the arena still
\* had room for it, x holding a written value.
C18_Witness ==
    /\ last.op = "allocate_variable" /\ last.err = "ValueError"
    /\ last.name = "x"
    /\ vars["x"].datatype = "INTEGER"
    /\ \E c \in 0..(StackSize - 1) : store[c + 1] = None

\* The program holds no jump opcode.
JumpFree(ls) == \A k \in 1..Len(ls) : ls[k].op \notin JumpOps

\* The instruction at the program counter is a jump that is taken: its opcode
\* is the last comparison result and its label is declared.
TakesJump ==
    /\ lines[current_line + 1].op \in JumpOps
    /\ Len(lines[current_line + 1].args) = 1
    /\ comparison_result = lines[current_line + 1].op
    /\ lines[current_line + 1].args[1].name \in DOMAIN labels

\* C19: the program counter stays within 0 .. len(instructions), and every
\* step that is neither a taken jump nor a fatal error advances it by exactly
\* one, also when the instruction raised a recoverable error; hence a program
\* without a jump opcode runs each of its instructions at most once, in
\* order, and halts after at most len(instructions) steps.
C19_ProgramCounterAdvances ==
    [][/\ status = "running"
       /\ 0 <= current_line /\ current_line <= Len(lines)
       /\ 0 <= current_line' /\ current_line' <= Len(lines)
       /\ current_line = Len(lines) =>
             (status' = "done" /\ current_line' = current_line)
       /\ (current_line < Len(lines) /\ status' # "fatal" /\ ~TakesJump) =>
             (status' = "running" /\ current_line' = current_line + 1)
       /\ (current_line < Len(lines) /\ status' = "fatal") =>
             current_line' = current_line
       /\ (current_line < Len(lines) /\ JumpFree(lines)) =>
             (status' = "fatal" \/ current_line' = current_line + 1)
      ]_allvars

\* A program without a jump has halted, its last instruction having raised a
\* recoverable error.
C19_Witness ==
    /\ status = "done"
    /\ JumpFree(lines)
    /\ current_line = Len(lines)
    /\ step.outcome = "error"
    /\ step.line = Len(lines) - 1

\* Line k (1-based) of the program is the instruction `lbl name`.
DeclaresLabel(k, name) ==
    /\ lines[k].op = "lbl"
    /\ Len(lines[k].args) = 1
    /\ lines[k].args[1].name = name

\* C20: for every name in the label table of the constructed Program,
\* 0 <= labels[name] < len(instructions) and instructions[labels[name]] is
\* the `lbl name` instruction, the last one when name is declared more than
\* once; so a taken jump to a declared label lands on an in-bounds lbl
\* instruction, and a taken jump to an undeclared label is a recoverable
\* error that falls through to the next instruction.
C20_LabelsPointAtLblLines ==
    /\ \A name \in DOMAIN labels :
          /\ 0 <= labels[name] /\ labels[name] < Len(lines)
          /\ DeclaresLabel(labels[name] + 1, name)
          /\ \A k \in 1..Len(lines) :
                DeclaresLabel(k, name) => k - 1 <= labels[name]
    /\ \A k \in 1..Len(lines) :
          (lines[k].op = "lbl" /\ Len(lines[k].args) = 1)
              => lines[k].args[1].name \in DOMAIN labels
    /\ step.outcome = "jump" =>
          /\ StepLabel \in DOMAIN labels
          /\ current_line = labels[StepLabel]
          /\ current_line < Len(lines)
          /\ DeclaresLabel(current_line + 1, StepLabel)
    /\ (/\ step.op \in JumpOps
        /\ comparison_result = step.op
        /\ StepLabel \notin DOMAIN labels)
          => /\ step.outcome = "error"
             /\ status # "fatal"
             /\ Slx = IntV(1)
             /\ current_line = step.line + 1

\* A jump to L has just been taken in a program that declares L twice: it
\* landed on the second declaration.
C20_Witness ==
    /\ step.outcome = "jump"
    /\ StepLabel = "L"
    /\ current_line = labels["L"]
    /\ \E k \in 1..current_line : DeclaresLabel(k, "L")

\* The places (1-based) of the numbered lines of a source.
NumberedPlaces(src) == {k \in 1..Len(src) : src[k].k = "num"}

\* The code-block structure: the first numbered line stands right after a
\* START line; every line after it is a numbered line or the terminator;
\* and a terminator is the last line of the source and has a numbered line
\* before it.
CodeBlockStructure(src) ==
    /\ \A f \in NumberedPlaces(src) :
          (\A j \in NumberedPlaces(src) : f <= j) =>
              /\ f > 1
              /\ src[f - 1] = Start
              /\ \A k \in (f + 1)..Len(src) : src[k].k \in {"num", "."}
    /\ \A k \in 1..Len(src) :
          src[k].k = "." =>
              (k = Len(src) /\ \E j \in NumberedPlaces(src) : j < k)

\* Nothing but the structure can be wrong with the source: its numbering has
\* no gap, its SIZE lines are valid and every line is a directive, the
\* terminator or a numbered line.
OnlyStructureAtStake(src) ==
    /\ GaplessTens(NumbersOf(src))
    /\ \A k \in 1..Len(src) :
          /\ src[k].k \in StructureKinds
          /\ src[k].k = "SIZE" =>
                (src[k].n \in SizeUnits /\ src[k].name \in DOMAIN SIZE_SYSTEM_MAPPING)

\* C21: the first numbered line is accepted only if the line immediately
\* before it is START; once a numbered line has been accepted every later
\* line must be a numbered line or the terminator, so START, PROGRAM and SIZE
\* after it are rejected; and a `.` line is accepted only when a code block
\* is active and it is the last line of the source. Every violation is a
\* construction error and no Program is returned.
C21_CodeBlockStructure ==
    (status \in {"constructed", "rejected"} /\ OnlyStructureAtStake(source))
        => /\ status = "constructed" <=> CodeBlockStructure(source)
           /\ status = "rejected" =>
                 /\ program.err # "none"
                 /\ lines = <<>>
                 /\ labels = <<>>
           /\ status = "constructed" =>
                 /\ program.err = "none"
                 /\ Len(lines) = Cardinality(NumberedPlaces(source))

\* A source with a START line inside its code block has been rejected.
C21_Witness ==
    /\ status = "rejected"
    /\ Len(source) >= 3
    /\ source[1] = Start
    /\ source[2].k = "num"
    /\ source[3] = Start
    /\ OnlyStructureAtStake(source)

\* The bound arena variables whose allocation holds cell c (0-based).
Owners(c) == {n \in ArenaNames(vars) : c \in Cells(vars[n].allocation)}

\* C22: in every state reachable by a program run the arena has exactly
\* byte_size cells, and a cell is not free if and only if it lies inside the
\* allocation of exactly one bound arena variable: no cell stays allocated
\* after its variable is dropped and no bound variable covers a free cell.
C22_CellsOwnedByBoundVariables ==
    /\ Len(store) = program.byte_size
    /\ \A c \in 0..(Len(store) - 1) :
          /\ store[c + 1] # None <=> Cardinality(Owners(c)) = 1
          /\ Cardinality(Owners(c)) <= 1
    /\ \A n \in ArenaNames(vars) :
          Cells(vars[n].allocation) \subseteq 0..(Len(store) - 1)

\* x was allocated, dropped and allocated again, and a value has just been
\* written to it.
C22_Witness ==
    /\ step.op = "set" /\ step.outcome = "ok" /\ step.line = 3
    /\ lines[2].op = "drp"
    /\ lines[3].op = "alc"
    /\ ArenaNames(vars) = {"x"}
    /\ \E c \in 0..(StackSize - 1) : store[c + 1] = None

\* The exceptions write_variable raises when the value cannot be stored: an
\* integer out of the signed range (OverflowError), a text too long
\* (MemoryOverflow), a value that cannot be encoded (UnicodeEncodeError for a
\* text that is not ASCII, AttributeError for a value that is no int or str).
CannotStore ==
    {"OverflowError", "MemoryOverflow", "UnicodeEncodeError", "AttributeError"}

\* C23: a failed write leaves the variable as it was: whenever
\* write_variable on a bound arena variable fails because the value cannot be
\* stored, the variable's datatype and every cell of its allocation are the
\* same as before the call, so a later read returns the previously stored
\* value with its previous type.
C23_FailedWriteLeavesVariable ==
    [][(/\ last'.op = "write_variable"
        /\ last'.name \in ArenaNames(vars)
        /\ last'.err \in CannotStore)
       => /\ vars'[last'.name].datatype = vars[last'.name].datatype
          /\ vars'[last'.name].allocation = vars[last'.name].allocation
          /\ store' = store
          /\ get_variable(store', vars', last'.name) =
                get_variable(store, vars, last'.name)
      ]_allvars

\* slx, sly and slz are bound to reserved registers, which have no arena
\* allocation; slx is 0 or 1, and sly and slz are 0.
ReservedRegistersIntact ==
    /\ ReservedNames \subseteq DOMAIN vars
    /\ \A r \in ReservedNames :
          /\ vars[r].kind = "ReservedRegister"
          /\ vars[r].allocation = NoAllocation
          /\ r \notin ArenaNames(vars)
    /\ vars["slx"].value \in {IntV(0), IntV(1)}
    /\ vars["sly"].value = IntV(0)
    /\ vars["slz"].value = IntV(0)

\* C24: in every state reachable by a program run, slx, sly and slz are
\* bound to reserved registers with no arena allocation, slx is 0 or 1 and
\* sly and slz are 0: no user instruction changes, rebinds or removes a
\* reserved register, and only the engine's write at the end of an
\* instruction that neither ended the run nor jumped changes slx.
C24_ReservedRegistersProtected ==
    [][/\ ReservedRegistersIntact
       /\ ReservedRegistersIntact'
       /\ vars'["sly"] = vars["sly"]
       /\ vars'["slz"] = vars["slz"]
       /\ vars'["slx"] # vars["slx"] =>
             /\ status' = "running"
             /\ current_line' = current_line + 1
             /\ ~TakesJump
             /\ Slx' = IntV(IF step'.err = "none" THEN 0 ELSE 1)
      ]_allvars

\* `alc &slx :[1]` has just failed: slx is still a reserved register, and the
\* engine has set it to 1.
C24_Witness ==
    /\ step.op = "alc" /\ step.outcome = "error"
    /\ lines[step.line + 1].args[1] = Ref("slx")
    /\ ReservedRegistersIntact
    /\ Slx = IntV(1)
    /\ ArenaNames(vars) = {"x", "y"}

====
